---- MODULE Spec2Model ----
(***************************************************************************)
(* Credential and verification lifecycle of the user-management backend:   *)
(* the account-lockout state machine (AuthRepositoryImpl.authenticateUser  *)
(* and the Auth entity), the login / refresh / verify-token flows, and the *)
(* email verification-code workflow (send / resend / verify).              *)
(*                                                                         *)
(* Time is the value of `new Date().getTime()` in milliseconds.  A         *)
(* nullable Date is a sequence: <<>> is null and <<t>> is the date t.      *)
(* Every asynchronous handler is split at its storage awaits, so that two  *)
(* requests can interleave between a read and the write that follows it.   *)
(***************************************************************************)
EXTENDS Integers, Sequences, FiniteSets, TLC

\* ---------------------------------------------------------------- bounds
MaxTicks == 4
MaxReq == 2
MaxCodes == 2
TickMs == 300000
MaxJwtTicks == 6
MaxRaceTicks == 1
JwtTickMs == 500

\* ------------------------------------------------------ program constants
MaxAttempts == 5
LockDurationMinutes == 15
MsPerMinute == 60000
MsPerSecond == 1000
JwtExpiresInMs == 3600000
JwtRefreshExpiresInMs == 86400000
RememberMeAccessSeconds == 604800
RememberMeRefreshSeconds == 2592000

Accounts == {"a@b.com"}
Emails == Accounts \cup {"nobody@b.com"}
Reqs == 1..MaxReq
NoDate == <<>>

VARIABLES
  now,      \* the clock, in milliseconds
  users,    \* the users table: one row per account
  req,      \* the login requests in flight, one per slot
  held,     \* the token pair the client holds (<<>> when none)
  unl,      \* the unlockAccount call in flight (<<>> when none)
  resp,     \* the response of the handler that completed in the last step
  verifs,   \* the email_verifications table
  nextId,   \* number of verification records created so far
  ev,       \* the send / resend / verify requests in flight, one per slot
  activations, \* how often a verify has activated a user
  redeemed, \* ids of the records a verify has succeeded on
  raced,    \* a send marked previous codes while another send of the
            \* same email was between its mark and its save
  outbox,   \* the calls made to the notifier: record id and whether the
            \* email service reported success
  jwt       \* a sign / verify round trip through the JWT adapter
            \* (<<>> before the first sign)

authVars == <<users, req, held, unl>>
evVars == <<verifs, nextId, ev, activations, redeemed, raced, outbox, jwt>>
vars == <<now, users, req, held, unl, resp, verifs, nextId, ev, activations,
          redeemed, raced, outbox, jwt>>

\* ------------------------------------------------------------ Auth entity
Max(a, b) == IF a >= b THEN a ELSE b

\* Math.ceil(n / d) for d > 0
CeilDiv(n, d) == IF n >= 0 THEN (n + d - 1) \div d ELSE -((-n) \div d)

\* AuthMapper.toDomain: the credential view of a users row
ToDomain(row) ==
  [isActive |-> row.isActive,
   lastLoginAt |-> row.lastLoginAt,
   loginAttempts |-> row.loginAttempts,
   lockedUntil |-> row.lockedUntil]

\* the comparison of isLocked turned round
IsLocked_Reversed(a, t) == a.lockedUntil # NoDate /\ a.lockedUntil[1] < t

IsLocked(a, t) == a.lockedUntil # NoDate /\ a.lockedUntil[1] > t

\* canAttemptLogin without the isActive conjunct
CanAttemptLogin_LockOnly(a, t) == ~IsLocked(a, t)

CanAttemptLogin(a, t) == a.isActive /\ ~IsLocked(a, t)

\* recordFailedLoginAttempt locking one attempt late (> for >=)
RecordFailedLoginAttempt_Late(a, t) ==
  LET n == a.loginAttempts + 1 IN
  [a EXCEPT !.loginAttempts = n,
            !.lockedUntil = IF n > MaxAttempts
                            THEN <<t + LockDurationMinutes * MsPerMinute>>
                            ELSE @]

RecordFailedLoginAttempt(a, t) ==
  LET n == a.loginAttempts + 1 IN
  [a EXCEPT !.loginAttempts = n,
            !.lockedUntil = IF n >= MaxAttempts
                            THEN <<t + LockDurationMinutes * MsPerMinute>>
                            ELSE @]

\* recordSuccessfulLogin without the counter reset
RecordSuccessfulLogin_KeepCount(a, t) ==
  [a EXCEPT !.lastLoginAt = <<t>>, !.lockedUntil = NoDate]

RecordSuccessfulLogin(a, t) ==
  [a EXCEPT !.lastLoginAt = <<t>>, !.loginAttempts = 0, !.lockedUntil = NoDate]

\* unlock clearing the lock but not the counter
Unlock_KeepCount(a) == [a EXCEPT !.lockedUntil = NoDate]

Unlock(a) == [a EXCEPT !.loginAttempts = 0, !.lockedUntil = NoDate]

\* getMinutesUntilUnlock rounding down instead of up
GetMinutesUntilUnlock_Floor(a, t) ==
  IF ~IsLocked(a, t) THEN 0
  ELSE Max(0, (a.lockedUntil[1] - t) \div MsPerMinute)

\* Auth.getMinutesUntilUnlock
GetMinutesUntilUnlock(a, t) ==
  IF ~IsLocked(a, t) THEN 0
  ELSE Max(0, CeilDiv(a.lockedUntil[1] - t, MsPerMinute))

\* a write-back that stores the counter and the last login but leaves the
\* lock column as it is in the row
UpdateTypeOrmEntity_KeepLock(row, a) ==
  [row EXCEPT !.lastLoginAt = a.lastLoginAt,
              !.loginAttempts = a.loginAttempts]

\* AuthMapper.updateTypeOrmEntity followed by ormRepository.save
UpdateTypeOrmEntity(row, a) ==
  [row EXCEPT !.lastLoginAt = a.lastLoginAt,
              !.loginAttempts = a.loginAttempts,
              !.lockedUntil = a.lockedUntil]

\* ormRepository.findOne: soft-deleted rows are not returned
Found(e) == e \in Accounts /\ users[e].exists

\* ------------------------------------------------------------- requests
IdleReq == [pc |-> "idle", email |-> "", pwdOk |-> FALSE, snap |-> <<>>]

IdleEv == [pc |-> "idle", op |-> "", email |-> "", code |-> "", snap |-> <<>>]

\* no handler completed in the last step
NoResp == [op |-> "none", email |-> "", why |-> "", out |-> "", pre |-> <<>>,
           n |-> 0, pwdOk |-> FALSE]

\* LoginUseCase.execute after authenticateUser has returned `auth`
\* (<<>> for null)
LoginOutcome(auth, t) ==
  IF auth = <<>> THEN "invalid_credentials"
  ELSE IF IsLocked(auth[1], t) THEN "locked"
  ELSE IF ~auth[1].isActive THEN "not_active"
  ELSE "ok"

\* the branch authenticateUser takes before the password comparison
\* ("" when it goes on to compare)
Precheck(e, t) ==
  IF ~Found(e) THEN "not_found"
  ELSE IF ~CanAttemptLogin(ToDomain(users[e]), t) /\ ~ToDomain(users[e]).isActive
       THEN "inactive"
  ELSE IF ~CanAttemptLogin(ToDomain(users[e]), t) /\ IsLocked(ToDomain(users[e]), t)
       THEN "locked"
  ELSE ""

\* AuthMapper.toJwtPayload (the two name fields, which the tokens carry
\* unread, are left out)
ToJwtPayload(e, a, t) ==
  [sub |-> e, email |-> e, role |-> "user", isActive |-> a.isActive,
   iat |-> t \div MsPerSecond]

\* jwtAdapter.sign, expiresIn in seconds: jwt.sign stamps iat (the
\* payload's own iat when it has one, else the clock in whole seconds)
\* and exp = iat + expiresIn into the claims and signs them with the key
Sign(payload, expiresIn, t) ==
  LET expiration == IF expiresIn = 0 THEN JwtExpiresInMs \div MsPerSecond
                    ELSE expiresIn
      timestamp == IF "iat" \in DOMAIN payload /\ payload.iat # 0
                   THEN payload.iat ELSE t \div MsPerSecond
  IN [claims |-> [k \in DOMAIN payload \cup {"iat", "exp"} |->
                    IF k = "exp" THEN timestamp + expiration
                    ELSE IF k = "iat" THEN timestamp
                    ELSE payload[k]],
      sig |-> "key"]

\* jwtAdapter.verify reporting a token as invalid once it has expired
Verify_ExpiredAsInvalid(token, t) ==
  IF token.sig # "key" \/ t \div MsPerSecond >= token.claims.exp
  THEN [why |-> "invalid", payload |-> <<>>]
  ELSE [why |-> "ok", payload |-> <<token.claims>>]

\* jwtAdapter.verify: jwt.verify checks the signature, then exp against
\* the clock in whole seconds; the adapter turns TokenExpiredError into
\* 'Token has expired' and JsonWebTokenError into 'Invalid token'
Verify(token, t) ==
  IF token.sig # "key" THEN [why |-> "invalid", payload |-> <<>>]
  ELSE IF t \div MsPerSecond >= token.claims.exp
       THEN [why |-> "expired", payload |-> <<>>]
  ELSE [why |-> "ok", payload |-> <<token.claims>>]

\* jwtAdapter.generateTokenPair
NewPair(e, a, t) ==
  <<[access |-> Sign(ToJwtPayload(e, a, t), JwtExpiresInMs \div MsPerSecond, t),
     refresh |-> Sign(ToJwtPayload(e, a, t),
                      JwtRefreshExpiresInMs \div MsPerSecond, t)]>>

Init ==
  /\ now = 0
  /\ users = [e \in Accounts |->
                [exists |-> TRUE, isActive |-> FALSE, lastLoginAt |-> NoDate,
                 loginAttempts |-> 0, lockedUntil |-> NoDate]]
  /\ req = [r \in Reqs |-> IdleReq]
  /\ held = <<>>
  /\ unl = <<>>
  /\ resp = NoResp
  /\ verifs = {}
  /\ nextId = 0
  /\ ev = [r \in Reqs |-> IdleEv]
  /\ activations = 0
  /\ redeemed = {}
  /\ raced = FALSE
  /\ outbox = {}
  /\ jwt = <<>>

\* the clock advances between any two steps
Tick ==
  /\ now < MaxTicks * TickMs
  /\ now' = now + TickMs
  /\ resp' = NoResp
  /\ UNCHANGED <<users, req, held, unl, evVars>>

\* login, first part: authenticateUser up to the password comparison
\* (findOne, AuthMapper.toDomain, canAttemptLogin), and the rest of
\* LoginUseCase.execute when authenticateUser returns null here
LoginStart(r, e, ok) ==
  /\ req[r].pc = "idle"
  /\ IF Precheck(e, now) # ""
     THEN /\ resp' = [op |-> "login", email |-> e, why |-> Precheck(e, now),
                      out |-> LoginOutcome(<<>>, now), pre |-> <<>>,
                      n |-> 0, pwdOk |-> ok]
          /\ UNCHANGED req
     ELSE /\ req' = [req EXCEPT ![r] = [pc |-> "compare", email |-> e,
                       pwdOk |-> ok, snap |-> <<ToDomain(users[e])>>]]
          /\ resp' = NoResp
  /\ UNCHANGED <<now, users, held, unl, evVars>>

\* LoginUseCase.execute: the expiresIn of the login response, in seconds
\* ('7d' with rememberMe, else config.jwt.expiresIn)
AccessTokenExpiry(rememberMe) ==
  IF rememberMe THEN RememberMeAccessSeconds
  ELSE JwtExpiresInMs \div MsPerSecond

\* a login whose second part counts from the row as stored at that moment
\* rather than from the entity authenticateUser loaded
LoginCompare_Reload(r) ==
  /\ req[r].pc = "compare"
  /\ LET e == req[r].email
         pre == req[r].snap
         auth == IF req[r].pwdOk
                 THEN RecordSuccessfulLogin(ToDomain(users[e]), now)
                 ELSE RecordFailedLoginAttempt(ToDomain(users[e]), now)
     IN
     IF ~Found(e)
     THEN /\ resp' = [op |-> "login", email |-> e, why |-> "storage_error",
                      out |-> "login_failed", pre |-> pre, n |-> 0,
                      pwdOk |-> req[r].pwdOk]
          /\ UNCHANGED <<users, held>>
     ELSE /\ users' = [users EXCEPT ![e] = UpdateTypeOrmEntity(@, auth)]
          /\ IF req[r].pwdOk
             THEN /\ \E rememberMe \in BOOLEAN :
                       resp' = [op |-> "login", email |-> e, why |-> "ok",
                                out |-> LoginOutcome(<<auth>>, now),
                                pre |-> pre,
                                n |-> GetMinutesUntilUnlock(auth, now),
                                pwdOk |-> TRUE,
                                expiresIn |-> AccessTokenExpiry(rememberMe)]
                  /\ held' = IF LoginOutcome(<<auth>>, now) = "ok"
                             THEN NewPair(e, auth, now) ELSE held
             ELSE /\ resp' = [op |-> "login", email |-> e, why |-> "bad_password",
                              out |-> LoginOutcome(<<>>, now), pre |-> pre,
                              n |-> 0, pwdOk |-> FALSE]
                  /\ UNCHANGED held
  /\ req' = [req EXCEPT ![r] = IdleReq]
  /\ UNCHANGED <<now, unl, evVars>>

\* login, second part: the password comparison has returned; record the
\* attempt, updateAuthInfo (findOne by id, save), then the rest of
\* LoginUseCase.execute
LoginCompare(r) ==
  /\ req[r].pc = "compare"
  /\ LET e == req[r].email
         pre == req[r].snap
         auth == IF req[r].pwdOk
                 THEN RecordSuccessfulLogin(pre[1], now)
                 ELSE RecordFailedLoginAttempt(pre[1], now)
     IN
     IF ~Found(e)
     THEN \* updateAuthInfo throws InfrastructureError('User not found')
          /\ resp' = [op |-> "login", email |-> e, why |-> "storage_error",
                      out |-> "login_failed", pre |-> pre, n |-> 0,
                      pwdOk |-> req[r].pwdOk]
          /\ UNCHANGED <<users, held>>
     ELSE /\ users' = [users EXCEPT ![e] = UpdateTypeOrmEntity(@, auth)]
          /\ IF req[r].pwdOk
             THEN /\ \E rememberMe \in BOOLEAN :
                       resp' = [op |-> "login", email |-> e, why |-> "ok",
                                out |-> LoginOutcome(<<auth>>, now),
                                pre |-> pre,
                                n |-> GetMinutesUntilUnlock(auth, now),
                                pwdOk |-> TRUE,
                                expiresIn |-> AccessTokenExpiry(rememberMe)]
                  /\ held' = IF LoginOutcome(<<auth>>, now) = "ok"
                             THEN NewPair(e, auth, now) ELSE held
             ELSE /\ resp' = [op |-> "login", email |-> e, why |-> "bad_password",
                              out |-> LoginOutcome(<<>>, now), pre |-> pre,
                              n |-> 0, pwdOk |-> FALSE]
                  /\ UNCHANGED held
  /\ req' = [req EXCEPT ![r] = IdleReq]
  /\ UNCHANGED <<now, unl, evVars>>

\* UpdateUserUseCase.execute with isActive given: userRepository.update
\* writes the profile columns, isActive among them
SetActive(e, b) ==
  /\ Found(e)
  /\ users[e].isActive # b
  /\ users' = [users EXCEPT ![e].isActive = b]
  /\ resp' = NoResp
  /\ UNCHANGED <<now, req, held, unl, evVars>>

\* UserRepositoryImpl.delete: repository.softDelete(id)
DeleteUser(e) ==
  /\ Found(e)
  /\ users' = [users EXCEPT ![e].exists = FALSE]
  /\ resp' = NoResp
  /\ UNCHANGED <<now, req, held, unl, evVars>>

\* UserRepositoryImpl.restore: repository.restore(id)
RestoreUser(e) ==
  /\ e \in Accounts /\ ~users[e].exists
  /\ users' = [users EXCEPT ![e].exists = TRUE]
  /\ resp' = NoResp
  /\ UNCHANGED <<now, req, held, unl, evVars>>

\* unlockAccount, first part: findByEmail
UnlockStart(e) ==
  /\ unl = <<>>
  /\ Found(e)
  /\ unl' = <<[email |-> e, snap |-> ToDomain(users[e])]>>
  /\ resp' = NoResp
  /\ UNCHANGED <<now, users, req, held, evVars>>

\* unlockAccount, second part: auth.unlock() and updateAuthInfo
UnlockSave ==
  /\ unl # <<>>
  /\ LET e == unl[1].email IN
       /\ users' = IF Found(e)
                   THEN [users EXCEPT ![e] = UpdateTypeOrmEntity(@, Unlock(unl[1].snap))]
                   ELSE users
       /\ resp' = [op |-> "unlock", email |-> e,
                   why |-> IF Found(e) THEN "ok" ELSE "storage_error",
                   out |-> "", pre |-> <<unl[1].snap>>, n |-> 0, pwdOk |-> FALSE]
  /\ unl' = <<>>
  /\ UNCHANGED <<now, req, held, evVars>>

\* the token the client presents: "access" and "refresh" are the two
\* tokens of the held pair, "forged" is not signed with the key
Presented(tok) ==
  IF tok = "forged" \/ held = <<>>
  THEN [claims |-> [sub |-> "a@b.com", iat |-> 0, exp |-> 0], sig |-> "other"]
  ELSE held[1][tok]

\* jwtAdapter.verify of the token the client presents
JwtVerify(tok, t) == Verify(Presented(tok), t).why

\* the subject re-check without the isLocked test
SubjectCheck_NoLock(sub, t) ==
  IF ~Found(sub) THEN "user_not_found"
  ELSE IF ~ToDomain(users[sub]).isActive THEN "not_active"
  ELSE "ok"

\* the checks RefreshTokenUseCase and VerifyTokenUseCase share after
\* jwt.verify: findByUserId, isActive, isLocked
SubjectCheck(sub, t) ==
  IF ~Found(sub) THEN "user_not_found"
  ELSE IF ~ToDomain(users[sub]).isActive THEN "not_active"
  ELSE IF IsLocked(ToDomain(users[sub]), t) THEN "locked"
  ELSE "ok"

\* the message of the InfrastructureError jwtAdapter.verify throws
AdapterMessage(why) ==
  IF why = "expired" THEN "Token has expired" ELSE "Invalid token"

\* the words of a message that the consumers search for, as written
Words(msg) ==
  CASE msg = "Token has expired" -> {"Token", "expired"}
    [] msg = "Invalid token" -> {"Invalid", "token"}
    [] OTHER -> {}

Lower(w) ==
  CASE w = "Token" -> "token"
    [] w = "Invalid" -> "invalid"
    [] OTHER -> w

\* a search that ignores the case of the letters
Includes_IgnoreCase(msg, needle) ==
  \E w \in Words(msg) : Lower(w) = Lower(needle)

\* String.prototype.includes, which is case sensitive
Includes(msg, needle) == needle \in Words(msg)

\* RefreshTokenUseCase.execute: jwtAdapter.verify, the subject checks, and
\* the catch block's classification of the adapter's error
RefreshOutcome(tok, t) ==
  LET v == JwtVerify(tok, t) IN
  IF v = "ok" THEN SubjectCheck(Presented(tok).claims.sub, t)
  ELSE IF Includes(AdapterMessage(v), "Token")
       THEN "invalid_or_expired_refresh_token"
  ELSE "token_refresh_failed"

\* VerifyTokenUseCase.execute: the same with its own catch block
VerifyTokenOutcome(tok, t) ==
  LET v == JwtVerify(tok, t) IN
  IF v = "ok" THEN SubjectCheck(Presented(tok).claims.sub, t)
  ELSE IF \/ Includes(AdapterMessage(v), "expired")
          \/ Includes(AdapterMessage(v), "invalid")
          \/ Includes(AdapterMessage(v), "Token")
       THEN "invalid_or_expired_token"
  ELSE "token_verification_failed"

\* RefreshTokenUseCase.execute
Refresh(tok) ==
  /\ resp' = [op |-> "refresh", email |-> IF held = <<>> THEN "" ELSE held[1].access.claims.sub,
              why |-> tok, out |-> RefreshOutcome(tok, now), pre |-> held, n |-> 0, pwdOk |-> FALSE]
  /\ held' = IF RefreshOutcome(tok, now) = "ok"
             THEN NewPair(Presented(tok).claims.sub,
                          ToDomain(users[Presented(tok).claims.sub]), now)
             ELSE held
  /\ UNCHANGED <<now, users, req, unl, evVars>>

\* VerifyTokenUseCase.execute
VerifyToken(tok) ==
  /\ resp' = [op |-> "verify", email |-> IF held = <<>> THEN "" ELSE held[1].access.claims.sub,
              why |-> tok, out |-> VerifyTokenOutcome(tok, now), pre |-> held, n |-> 0, pwdOk |-> FALSE]
  /\ UNCHANGED <<now, users, req, held, unl, evVars>>

Tokens == {"access", "refresh", "forged"}

\* a logout that drops the pair on the server side
Logout_Revoke(tok) ==
  /\ resp' = [op |-> "logout",
              email |-> IF tok # "none" /\ JwtVerify(tok, now) = "ok"
                        THEN Presented(tok).claims.email ELSE "unknown",
              why |-> tok, out |-> "ok", pre |-> held, n |-> 0,
              pwdOk |-> FALSE]
  /\ held' = <<>>
  /\ UNCHANGED <<now, users, req, unl, evVars>>

\* LogoutUseCase.execute: with a token, jwtAdapter.verify for the log line
\* (its failure is swallowed); nothing is stored or revoked
Logout(tok) ==
  /\ resp' = [op |-> "logout",
              email |-> IF tok # "none" /\ JwtVerify(tok, now) = "ok"
                        THEN Presented(tok).claims.email ELSE "unknown",
              why |-> tok, out |-> "ok", pre |-> held, n |-> 0,
              pwdOk |-> FALSE]
  /\ UNCHANGED <<now, users, req, held, unl, evVars>>

\* ------------------------------------------- EmailVerification entity
DefaultExpirationMinutes == 15
MinResendIntervalSeconds == 60

Codes == {"111111", "222222"}
ExpirationChoices == {DefaultExpirationMinutes}

\* EmailVerification.validate, run by the constructor: FALSE when it
\* throws DomainError (email and code length are well-formed here)
Validate(v, t) == v.expiresAt > t

IsExpired(v, t) == t > v.expiresAt

CanBeUsed(v, t) == ~v.isUsed /\ ~IsExpired(v, t)

\* EmailVerification.markAsUsed, called when it does not throw
MarkAsUsed(v, t) == [v EXCEPT !.isUsed = TRUE, !.usedAt = <<t>>]

\* EmailVerification.create
Create(id, e, c, expirationMinutes, t) ==
  [id |-> id, email |-> e, code |-> c, isUsed |-> FALSE,
   expiresAt |-> t + expirationMinutes * MsPerMinute,
   createdAt |-> t, usedAt |-> NoDate]

\* rows findByEmailAndCode's findOne may return
Matching(e, c) == {v \in verifs : v.email = e /\ v.code = c}

\* rows findLatestValidByEmail's findOne may return: unused rows of the
\* email, newest createdAt first
LatestUnused(e) ==
  LET un == {v \in verifs : v.email = e /\ ~v.isUsed} IN
  {v \in un : \A w \in un : w.createdAt <= v.createdAt}

\* markPreviousAsUsed updating no row
MarkPreviousAsUsed_None(e, t) == verifs

\* markPreviousAsUsed: UPDATE ... WHERE email = e AND is_used = false
MarkPreviousAsUsed(e, t) ==
  {IF v.email = e /\ ~v.isUsed THEN MarkAsUsed(v, t) ELSE v : v \in verifs}

\* ormRepository.save of a row with a primary key: update or insert
SaveRow(v) == {w \in verifs : w.id # v.id} \cup {v}

\* the wait the throttle reports, in seconds
WaitTime(v, t) ==
  MinResendIntervalSeconds - ((t - v.createdAt) \div MsPerSecond)

Throttled(v, t) == (t - v.createdAt) < MinResendIntervalSeconds * MsPerSecond

Usable(e) == {v \in verifs : v.email = e /\ ~v.isUsed /\ ~IsExpired(v, now)}

EvInstants == {0, 30000, 60000, 900000, 930000}

\* the clock of the verification workflow: it jumps to a later instant
TickEv ==
  /\ \E t \in EvInstants : t > now /\ now' = t
  /\ resp' = NoResp
  /\ UNCHANGED <<authVars, evVars>>

EvDone(r, op, why, out, pre, n) ==
  /\ ev' = [ev EXCEPT ![r] = IdleEv]
  /\ resp' = [op |-> op, email |-> ev[r].email, why |-> why, out |-> out,
              pre |-> pre, n |-> n, pwdOk |-> FALSE]

EvGoto(r, pc, snap) ==
  /\ ev' = [ev EXCEPT ![r].pc = pc, ![r].snap = snap]
  /\ resp' = NoResp

\* a send, resend or verify request arrives
EvBegin(r, op, e, c) ==
  /\ ev[r].pc = "idle"
  /\ ev' = [ev EXCEPT ![r] = [pc |-> IF op = "verify" THEN "load"
                                     ELSE IF op = "resend" THEN "ruser"
                                     ELSE "user",
                              op |-> op, email |-> e,
                              code |-> IF op = "verify" THEN c ELSE "",
                              snap |-> <<>>]]
  /\ resp' = NoResp
  /\ UNCHANGED <<now, authVars, verifs, nextId, activations, redeemed, raced, outbox, jwt>>

\* ResendEmailVerificationUseCase.execute: userRepository.findByEmail
ResendUser(r) ==
  /\ ev[r].pc = "ruser"
  /\ IF ~Found(ev[r].email)
     THEN EvDone(r, "resend", "user_not_found", "error", <<>>, 0)
     ELSE IF users[ev[r].email].isActive
     THEN EvDone(r, "resend", "already_verified", "error", <<>>, 0)
     ELSE EvGoto(r, "throttle", <<>>)
  /\ UNCHANGED <<now, authVars, verifs, nextId, activations, redeemed, raced, outbox, jwt>>

\* ResendEmailVerificationUseCase.execute: findLatestValidByEmail and
\* the minimum-interval check
ResendThrottle(r) ==
  /\ ev[r].pc = "throttle"
  /\ IF LatestUnused(ev[r].email) = {}
     THEN EvGoto(r, "user", <<>>)
     ELSE \E v \in LatestUnused(ev[r].email) :
       IF ~Validate(v, now)
       THEN \* EmailVerificationMapper.toDomain throws DomainError
            EvDone(r, "resend", "storage_error", "error", <<v>>, 0)
       ELSE IF IsExpired(v, now)
       THEN EvGoto(r, "user", <<>>)
       ELSE IF Throttled(v, now)
       THEN EvDone(r, "resend", "throttled", "error", <<v>>, WaitTime(v, now))
       ELSE EvGoto(r, "user", <<>>)
  /\ UNCHANGED <<now, authVars, verifs, nextId, activations, redeemed, raced, outbox, jwt>>

\* the send use case without its isActive early return
SendUser_NoActiveCheck(r) ==
  /\ ev[r].pc = "user"
  /\ IF ~Found(ev[r].email)
     THEN EvDone(r, ev[r].op, "user_not_found", "error", <<>>, 0)
     ELSE EvGoto(r, "mark", <<>>)
  /\ UNCHANGED <<now, authVars, verifs, nextId, activations, redeemed, raced, outbox, jwt>>

\* SendEmailVerificationUseCase.execute: userRepository.findByEmail
SendUser(r) ==
  /\ ev[r].pc = "user"
  /\ IF ~Found(ev[r].email)
     THEN EvDone(r, ev[r].op, "user_not_found", "error", <<>>, 0)
     ELSE IF users[ev[r].email].isActive
     THEN EvDone(r, ev[r].op, "already_verified", "success", <<>>, 0)
     ELSE EvGoto(r, "mark", <<>>)
  /\ UNCHANGED <<now, authVars, verifs, nextId, activations, redeemed, raced, outbox, jwt>>

\* SendEmailVerificationUseCase.execute: markPreviousAsUsed
SendMark(r) ==
  /\ ev[r].pc = "mark"
  /\ verifs' = MarkPreviousAsUsed(ev[r].email, now)
  /\ raced' = (raced \/ \E q \in Reqs \ {r} :
                          ev[q].pc = "save" /\ ev[q].email = ev[r].email)
  /\ EvGoto(r, "save", <<>>)
  /\ UNCHANGED <<now, authVars, nextId, activations, redeemed, outbox, jwt>>

\* the send use case undoing its save when the notifier fails
SendSave_Rollback(r, c, expirationMinutes, delivered) ==
  /\ ev[r].pc = "save"
  /\ nextId < MaxCodes
  /\ LET v == Create(nextId + 1, ev[r].email, c, expirationMinutes, now) IN
     /\ verifs' = IF delivered THEN SaveRow(v) ELSE verifs
     /\ nextId' = nextId + 1
     /\ outbox' = outbox \cup {[id |-> v.id, delivered |-> delivered]}
     /\ IF delivered
        THEN EvDone(r, ev[r].op, "sent", "success", <<v>>, 0)
        ELSE EvDone(r, ev[r].op, "notifier_failed", "error", <<v>>, 0)
  /\ UNCHANGED <<now, authVars, activations, redeemed, raced, jwt>>

\* SendEmailVerificationUseCase.execute: generate the code, create and
\* save the record, hand it to the notifier
SendSave(r, c, expirationMinutes, delivered) ==
  /\ ev[r].pc = "save"
  /\ nextId < MaxCodes
  /\ LET v == Create(nextId + 1, ev[r].email, c, expirationMinutes, now) IN
     IF ~Validate(v, now)
     THEN /\ EvDone(r, ev[r].op, "storage_error", "error", <<>>, 0)
          /\ UNCHANGED <<verifs, nextId, outbox>>
     ELSE /\ verifs' = SaveRow(v)
          /\ nextId' = nextId + 1
          /\ outbox' = outbox \cup {[id |-> v.id, delivered |-> delivered]}
          /\ IF delivered
             THEN EvDone(r, ev[r].op, "sent", "success", <<v>>, 0)
             ELSE EvDone(r, ev[r].op, "notifier_failed", "error", <<v>>, 0)
  /\ UNCHANGED <<now, authVars, activations, redeemed, raced, jwt>>

\* VerifyEmailCodeUseCase.execute: findByEmailAndCode
VerifyLoad(r) ==
  /\ ev[r].pc = "load"
  /\ IF Matching(ev[r].email, ev[r].code) = {}
     THEN EvDone(r, "verify", "invalid_code", "error", <<>>, 0)
     ELSE \E v \in Matching(ev[r].email, ev[r].code) :
       IF ~Validate(v, now)
       THEN \* EmailVerificationMapper.toDomain throws DomainError
            EvDone(r, "verify", "storage_error", "error", <<v>>, 0)
       ELSE EvGoto(r, "check", <<v>>)
  /\ UNCHANGED <<now, authVars, verifs, nextId, activations, redeemed, raced, outbox, jwt>>

\* VerifyEmailCodeUseCase.execute: canBeUsed, markAsUsed and
\* emailVerificationRepository.update (save, then toDomain)
VerifyCheck(r) ==
  /\ ev[r].pc = "check"
  /\ LET v == ev[r].snap[1] IN
     IF ~CanBeUsed(v, now) /\ v.isUsed
     THEN /\ EvDone(r, "verify", "already_used", "error", <<v>>, 0)
          /\ UNCHANGED verifs
     ELSE IF ~CanBeUsed(v, now) /\ IsExpired(v, now)
     THEN /\ EvDone(r, "verify", "expired", "error", <<v>>, 0)
          /\ UNCHANGED verifs
     ELSE /\ verifs' = SaveRow(MarkAsUsed(v, now))
          /\ IF ~Validate(MarkAsUsed(v, now), now)
             THEN EvDone(r, "verify", "storage_error", "error", <<v>>, 0)
             ELSE EvGoto(r, "vuser", <<v>>)
  /\ UNCHANGED <<now, authVars, nextId, activations, redeemed, raced, outbox, jwt>>

\* VerifyEmailCodeUseCase.execute: userRepository.findByEmail
VerifyUser(r) ==
  /\ ev[r].pc = "vuser"
  /\ IF ~Found(ev[r].email)
     THEN /\ EvDone(r, "verify", "user_not_found", "error", ev[r].snap, 0)
          /\ UNCHANGED redeemed
     ELSE IF users[ev[r].email].isActive
     THEN /\ EvDone(r, "verify", "ok", "not_activated", ev[r].snap, 0)
          /\ redeemed' = redeemed \cup {ev[r].snap[1].id}
     ELSE /\ EvGoto(r, "activate", ev[r].snap)
          /\ UNCHANGED redeemed
  /\ UNCHANGED <<now, authVars, verifs, nextId, activations, raced, outbox, jwt>>

\* VerifyEmailCodeUseCase.execute: user.activate() and
\* userRepository.update
VerifyActivate(r) ==
  /\ ev[r].pc = "activate"
  /\ IF ~Found(ev[r].email)
     THEN /\ EvDone(r, "verify", "storage_error", "error", ev[r].snap, 0)
          /\ UNCHANGED <<users, activations, redeemed>>
     ELSE /\ users' = [users EXCEPT ![ev[r].email].isActive = TRUE]
          /\ activations' = activations + 1
          /\ redeemed' = redeemed \cup {ev[r].snap[1].id}
          /\ EvDone(r, "verify", "ok", "activated", ev[r].snap, 0)
  /\ UNCHANGED <<now, req, held, unl, verifs, nextId, raced, outbox, jwt>>

\* EmailVerificationRepositoryImpl.deleteExpired
DeleteExpired ==
  /\ \E v \in verifs : v.expiresAt < now
  /\ verifs' = {v \in verifs : ~(v.expiresAt < now)}
  /\ resp' = NoResp
  /\ UNCHANGED <<now, authVars, nextId, ev, activations, redeemed, raced, outbox, jwt>>

EvStep(r) ==
  \/ \E op \in {"send", "resend", "verify"}, e \in Accounts, c \in Codes :
       EvBegin(r, op, e, c)
  \/ ResendUser(r)
  \/ ResendThrottle(r)
  \/ SendUser(r)
  \/ SendMark(r)
  \/ \E c \in Codes, m \in ExpirationChoices, d \in BOOLEAN : SendSave(r, c, m, d)
  \/ VerifyLoad(r)
  \/ VerifyCheck(r)
  \/ VerifyUser(r)
  \/ VerifyActivate(r)

\* the verification workflow, requests interleaving
NextEv ==
  \/ TickEv
  \/ \E r \in Reqs : EvStep(r)

SpecEv == Init /\ [][NextEv]_vars

\* the verification workflow, one request at a time
NextEvSeq ==
  \/ TickEv
  \/ EvStep(1)
  \/ DeleteExpired
  \/ \E e \in Accounts : DeleteUser(e)
  \/ \E e \in Accounts : RestoreUser(e)

SpecEvSeq == Init /\ [][NextEvSeq]_vars


\* one login at a time, interleaved with the user administration and the
\* token consumers
Next ==
  \/ Tick
  \/ \E e \in Emails, ok \in BOOLEAN : LoginStart(1, e, ok)
  \/ LoginCompare(1)
  \/ \E e \in Accounts, b \in BOOLEAN : SetActive(e, b)
  \/ \E e \in Accounts : DeleteUser(e)
  \/ \E e \in Accounts : RestoreUser(e)
  \/ \E tok \in Tokens : Refresh(tok)
  \/ \E tok \in Tokens : VerifyToken(tok)

Spec == Init /\ [][Next]_vars

\* the lockout state machine with the administrative unlock
NextAdmin ==
  \/ Tick
  \/ \E e \in Emails, ok \in BOOLEAN : LoginStart(1, e, ok)
  \/ LoginCompare(1)
  \/ \E e \in Accounts, b \in BOOLEAN : SetActive(e, b)
  \/ \E e \in Accounts : UnlockStart(e)
  \/ UnlockSave

SpecAdmin == Init /\ [][NextAdmin]_vars

\* send and resend only, requests interleaving
SendStep(r) ==
  \/ \E op \in {"send", "resend"}, e \in Accounts : EvBegin(r, op, e, "")
  \/ ResendUser(r)
  \/ ResendThrottle(r)
  \/ SendUser(r)
  \/ SendMark(r)
  \/ \E c \in Codes, m \in ExpirationChoices, d \in BOOLEAN : SendSave(r, c, m, d)

NextSendRace ==
  \/ TickEv
  \/ \E r \in Reqs : SendStep(r)

SpecSendRace == Init /\ [][NextSendRace]_vars

\* the steps of one verify request
VerifyStep(r) ==
  \/ \E e \in Accounts, c \in Codes : EvBegin(r, "verify", e, c)
  \/ VerifyLoad(r)
  \/ VerifyCheck(r)
  \/ VerifyUser(r)
  \/ VerifyActivate(r)

\* verify requests interleaving with each other and with the send and
\* resend requests of one sender
NextVerifyRace ==
  \/ TickEv
  \/ SendStep(1)
  \/ \E r \in Reqs : VerifyStep(r)

SpecVerifyRace == Init /\ [][NextVerifyRace]_vars

\* SendVerificationRequestSchema: the range the request schema gives
\* expirationMinutes
MinExpirationMinutes == 5
MaxExpirationMinutes == 60

\* what a caller of SendEmailVerificationUseCase.execute may pass as
\* request.expirationMinutes: nothing (<<>>) or a number
ExpirationInputs == {<<>>, <<0>>, <<-5>>, <<3>>, <<30>>, <<90>>}

\* request.expirationMinutes || 15
ExpirationOrDefault(given) ==
  IF given = <<>> \/ given[1] = 0 THEN DefaultExpirationMinutes ELSE given[1]

\* SendEmailVerificationUseCase.execute from create on, for a request that
\* carries expirationMinutes; a resend calls execute({ email }) without it
SendSaveWith(r, c, given, delivered) ==
  /\ (ev[r].op = "resend" => given = <<>>)
  /\ SendSave(r, c, ExpirationOrDefault(given), delivered)

\* SendEmailVerificationUseCase.execute: emailVerificationRepository.save
\* throws (the insert is rejected), and execute rethrows
SendSaveFails(r) ==
  /\ ev[r].pc = "save"
  /\ EvDone(r, ev[r].op, "save_failed", "error", <<>>, 0)
  /\ UNCHANGED <<now, authVars, verifs, nextId, activations, redeemed, raced,
                 outbox, jwt>>

\* one sender at a time, with every expirationMinutes a caller may pass and
\* a store that may reject the insert
NextSendInputs ==
  \/ TickEv
  \/ \E op \in {"send", "resend"}, e \in Accounts : EvBegin(1, op, e, "")
  \/ ResendUser(1)
  \/ ResendThrottle(1)
  \/ SendUser(1)
  \/ SendMark(1)
  \/ \E c \in Codes, g \in ExpirationInputs, d \in BOOLEAN :
       SendSaveWith(1, c, g, d)
  \/ SendSaveFails(1)

SpecSendInputs == Init /\ [][NextSendInputs]_vars

\* the instants at which the remaining lock time is read
UnlockInstants == {0, 20000, 60000, 890000, 900000, 920000}

\* the clock around a lock: it jumps to a later instant
TickUnlock ==
  /\ \E t \in UnlockInstants : t > now /\ now' = t
  /\ resp' = NoResp
  /\ UNCHANGED <<authVars, evVars>>

\* findByUserId, then Auth.getMinutesUntilUnlock on the loaded record
MinutesUntilUnlock(e) ==
  /\ Found(e)
  /\ resp' = [op |-> "minutes", email |-> e, why |-> "", out |-> "",
              pre |-> <<ToDomain(users[e])>>,
              n |-> GetMinutesUntilUnlock(ToDomain(users[e]), now),
              pwdOk |-> FALSE]
  /\ UNCHANGED <<now, authVars, evVars>>

\* logins and unlocks of the accounts while the remaining lock time is read
NextUnlockTime ==
  \/ TickUnlock
  \/ \E e \in Accounts, ok \in BOOLEAN : LoginStart(1, e, ok)
  \/ LoginCompare(1)
  \/ \E e \in Accounts : UnlockStart(e)
  \/ \E e \in Accounts, b \in BOOLEAN : SetActive(e, b)
  \/ UnlockSave
  \/ \E e \in Accounts : MinutesUntilUnlock(e)

SpecUnlockTime == Init /\ [][NextUnlockTime]_vars

\* EmailVerificationController.resendVerificationCode: the body sent to
\* the client for the use case's outcome rp (<<>> for a field that is
\* undefined); the use case never sets waitTimeSeconds on its result
ResendVerificationCode(rp) ==
  IF rp.out = "success"
  THEN [status |-> 200, waitTimeSeconds |-> <<>>]
  ELSE [status |-> IF rp.why = "throttled" THEN 429 ELSE 400,
        waitTimeSeconds |-> <<>>]

ThrottleInstants == {0, 30000, 30500, 59999, 60000, 61500}

\* the clock around the resend interval, in milliseconds
TickThrottle ==
  /\ \E t \in ThrottleInstants : t > now /\ now' = t
  /\ resp' = NoResp
  /\ UNCHANGED <<authVars, evVars>>

\* send and resend, one request at a time, within the resend interval
NextThrottle ==
  \/ TickThrottle
  \/ SendStep(1)

SpecThrottle == Init /\ [][NextThrottle]_vars

\* ------------------------------------------------- concurrent logins
\* logins in every slot, interleaved with each other and with the
\* administrative unlock
TickRace ==
  /\ now < MaxRaceTicks * TickMs
  /\ now' = now + TickMs
  /\ resp' = NoResp
  /\ UNCHANGED <<users, req, held, unl, evVars>>

NextLoginRace ==
  \/ TickRace
  \/ \E r \in Reqs, e \in Accounts, ok \in BOOLEAN : LoginStart(r, e, ok)
  \/ \E r \in Reqs : LoginCompare(r)
  \/ \E e \in Accounts, b \in BOOLEAN : SetActive(e, b)
  \/ \E e \in Accounts : UnlockStart(e)
  \/ UnlockSave

SpecLoginRace == Init /\ [][NextLoginRace]_vars

\* ---------------------------------------------- the lifetime of tokens
TokenInstants == {0, 1800000, 3600000, 86400000}

\* the clock over the lifetime of a token pair
TickToken ==
  /\ \E t \in TokenInstants : t > now /\ now' = t
  /\ resp' = NoResp
  /\ UNCHANGED <<authVars, evVars>>

\* login and the token consumers while the tokens age
NextTokens ==
  \/ TickToken
  \/ \E e \in Emails, ok \in BOOLEAN : LoginStart(1, e, ok)
  \/ LoginCompare(1)
  \/ \E e \in Accounts, b \in BOOLEAN : SetActive(e, b)
  \/ \E tok \in Tokens : Refresh(tok)
  \/ \E tok \in Tokens : VerifyToken(tok)
  \/ \E tok \in Tokens \cup {"none"} : Logout(tok)

SpecTokens == Init /\ [][NextTokens]_vars

\* ------------------------------------------------- the JWT adapter alone
JwtTtls == {1, 2}

\* the payloads handed to sign: with the iat that toJwtPayload stamps, and
\* without one
JwtPayloads(t) ==
  {ToJwtPayload(e, ToDomain(users[e]), t) : e \in Accounts}
    \cup {[sub |-> e, email |-> e, role |-> "user"] : e \in Accounts}

\* the clock of the round trip, in steps below one second
TickJwt ==
  /\ now < MaxJwtTicks * JwtTickMs
  /\ now' = now + JwtTickMs
  /\ resp' = NoResp
  /\ UNCHANGED <<authVars, evVars>>

\* jwtAdapter.sign(payload, ttl)
JwtSign(payload, ttl) ==
  /\ jwt' = <<[payload |-> payload, ttl |-> ttl, at |-> now,
               token |-> Sign(payload, ttl, now),
               checkedAt |-> now, result |-> <<>>]>>
  /\ resp' = NoResp
  /\ UNCHANGED <<now, authVars, verifs, nextId, ev, activations, redeemed,
                 raced, outbox>>

\* the token is altered on its way: its signature no longer matches
JwtTamper ==
  /\ jwt # <<>> /\ jwt[1].token.sig = "key"
  /\ jwt' = <<[jwt[1] EXCEPT !.token.sig = "other", !.result = <<>>]>>
  /\ resp' = NoResp
  /\ UNCHANGED <<now, authVars, verifs, nextId, ev, activations, redeemed,
                 raced, outbox>>

\* jwtAdapter.verify(token)
JwtCheck ==
  /\ jwt # <<>>
  /\ jwt' = <<[jwt[1] EXCEPT !.checkedAt = now,
                             !.result = <<Verify(jwt[1].token, now)>>]>>
  /\ resp' = NoResp
  /\ UNCHANGED <<now, authVars, verifs, nextId, ev, activations, redeemed,
                 raced, outbox>>

NextJwt ==
  \/ TickJwt
  \/ \E payload \in JwtPayloads(now), ttl \in JwtTtls : JwtSign(payload, ttl)
  \/ JwtTamper
  \/ JwtCheck

SpecJwt == Init /\ [][NextJwt]_vars

\* ================================================================ claims
Row(e) == ToDomain(users[e])

LockMs == LockDurationMinutes * MsPerMinute

\* the stored lock of e is in effect at instant t
LockInEffect(e, t) ==
  users[e].lockedUntil # NoDate /\ users[e].lockedUntil[1] > t

\* a login for e begins in this step (it is rejected at once, or goes on
\* to the password comparison)
LoginBegins(e) ==
  \/ resp'.op = "login" /\ resp'.email = e /\ req' = req
  \/ \E r \in Reqs : req[r].pc = "idle" /\ req'[r].pc = "compare"
                     /\ req'[r].email = e

\* a login for e returns in this step
LoginReturns(e) == resp'.op = "login" /\ resp'.email = e

\* C1: a wrong password raises the stored counter by one; the failure that
\* brings it to the threshold stores lockedUntil = now + lockDuration; and
\* while that lock is in effect no login, whatever its password, obtains a
\* credential or a token pair.
C1_LockoutAfterThreshold ==
  [][\A e \in Accounts :
       /\ (LoginReturns(e) /\ resp'.why = "bad_password")
            => /\ users'[e].loginAttempts = resp'.pre[1].loginAttempts + 1
               /\ (resp'.pre[1].loginAttempts = MaxAttempts - 1
                     => /\ users'[e].loginAttempts = MaxAttempts
                        /\ users'[e].lockedUntil = <<now + LockMs>>)
               /\ (resp'.pre[1].loginAttempts < MaxAttempts - 1
                     => users'[e].lockedUntil = resp'.pre[1].lockedUntil)
       /\ (Found(e) /\ LockInEffect(e, now) /\ (LoginBegins(e) \/ LoginReturns(e)))
            => /\ LoginReturns(e)
               /\ resp'.why # "ok" /\ resp'.out # "ok"
               /\ held' = held
    ]_vars

\* C1 witness: the fifth consecutive failure has locked the account for 15
\* minutes, 10 of them have passed, and a correct password is turned away.
C1_Witness ==
  \E e \in Accounts :
    /\ resp.op = "login" /\ resp.email = e /\ resp.pwdOk /\ resp.why = "locked"
    /\ users[e].loginAttempts = MaxAttempts
    /\ users[e].lockedUntil = <<now + 5 * MsPerMinute>>

\* C2: when the stored lock has elapsed (now > lockedUntil), the next login
\* that reaches the password comparison, right or wrong, leaves the stored
\* record not locked.
C2_NextAttemptLeavesLockedState ==
  [][\A e \in Accounts :
       (/\ Found(e) /\ users[e].lockedUntil # NoDate
        /\ now > users[e].lockedUntil[1]
        /\ LoginReturns(e) /\ resp'.why \in {"ok", "bad_password"}
        /\ resp'.pre[1].lockedUntil = users[e].lockedUntil)
         => (users'[e].lockedUntil = NoDate \/ users'[e].lockedUntil[1] <= now')
    ]_vars

\* C3: a login that begins on an account whose stored isActive is false is
\* rejected as inactive at once, whatever its password, counter and lock,
\* and issues nothing; a credential is only ever returned for a record
\* that was read as active.
C3_InactiveNeverAuthenticates ==
  [][\A e \in Accounts :
       /\ (Found(e) /\ ~users[e].isActive /\ LoginBegins(e))
            => /\ LoginReturns(e)
               /\ resp'.why = "inactive" /\ resp'.out # "ok"
               /\ held' = held
       /\ (LoginReturns(e) /\ (resp'.why = "ok" \/ resp'.out = "ok"))
            => /\ resp'.pre[1].isActive
               /\ resp'.pwdOk
    ]_vars

\* C3 witness: an inactive account that is also locked is refused with the
\* correct password.
C3_Witness ==
  \E e \in Accounts :
    /\ resp.op = "login" /\ resp.email = e /\ resp.pwdOk
    /\ resp.why = "inactive"
    /\ ~users[e].isActive /\ LockInEffect(e, now)

\* C4 (as stated): in every reachable state, interleaved sends included,
\* at most one record per email is unused and unexpired.
C4_AtMostOneUsable ==
  \A e \in Accounts : Cardinality(Usable(e)) <= 1

\* C4 (amended): at most one record per email is unused and unexpired as
\* long as no send has marked the previous codes while another send for
\* the same email was between its own mark and its save.
C4_AtMostOneUsableUnlessRaced ==
  ~raced => \A e \in Accounts : Cardinality(Usable(e)) <= 1

\* C4 witness: a second code was issued without a race; it superseded the
\* first, which is now used, and it is the only usable one.
C4_Witness ==
  /\ ~raced /\ nextId = 2
  /\ resp.op \in {"send", "resend"} /\ resp.why = "sent"
  /\ \E v, w \in verifs :
       /\ v.email = w.email /\ v.id # w.id
       /\ v.isUsed /\ ~IsExpired(v, now)
       /\ Usable(w.email) = {w}

\* C5: a verify that finds only records a verify has already succeeded on
\* fails as 'already used', whenever it is made, and the user is activated
\* at most once.
C5_SecondVerifyAlreadyUsed ==
  [][/\ \A r \in Reqs :
          (/\ ev[r].pc = "load"
           /\ Matching(ev[r].email, ev[r].code) # {}
           /\ \A v \in Matching(ev[r].email, ev[r].code) : v.id \in redeemed
           /\ resp'.op = "verify")
            => resp'.why = "already_used"
     /\ activations' <= 1
    ]_vars

\* C6: whenever verify evaluates canBeUsed() on a record, the answer is
\* "unused and now strictly before expiresAt".
C6_UsableIffStrictlyBeforeExpiry ==
  \A r \in Reqs :
    ev[r].pc = "check"
      => (CanBeUsed(ev[r].snap[1], now)
            <=> (~ev[r].snap[1].isUsed /\ now < ev[r].snap[1].expiresAt))

\* C7: refresh answers with a new pair, and verify-token with valid, only
\* if the subject of the token is at that moment a stored, active and not
\* locked account; refresh replaces the pair only then.
C7_TokenConsumersRecheckSubject ==
  resp.op \in {"refresh", "verify"}
    => /\ resp.out = "ok"
            => /\ resp.pre # <<>> /\ resp.why # "forged"
               /\ Found(resp.email)
               /\ users[resp.email].isActive
               /\ ~LockInEffect(resp.email, now)
       /\ held # resp.pre => resp.op = "refresh" /\ resp.out = "ok"

\* C7 witness: a refresh token issued before the lockout is refused while
\* the account is locked.
C7_Witness ==
  /\ resp.op = "refresh" /\ resp.why = "refresh" /\ resp.out = "locked"
  /\ resp.pre # <<>>
  /\ users[resp.email].lockedUntil # NoDate
  /\ resp.pre[1].refresh.claims.iat * MsPerSecond
       < users[resp.email].lockedUntil[1] - LockMs

\* C8: after a login with the correct password on an active, unlocked
\* account the stored record has loginAttempts = 0, no lock and
\* lastLoginAt = now.
C8_SuccessResetsCounter ==
  \A e \in Accounts :
    (resp.op = "login" /\ resp.email = e /\ resp.why = "ok")
      => /\ users[e].loginAttempts = 0
         /\ users[e].lockedUntil = NoDate
         /\ users[e].lastLoginAt = <<now>>
         /\ resp.out = "ok"

\* C8 witness: four failures, then a success: the counter is back at 0.
C8_Witness ==
  \E e \in Accounts :
    /\ resp.op = "login" /\ resp.email = e /\ resp.why = "ok"
    /\ resp.pre[1].loginAttempts = MaxAttempts - 1
    /\ users[e].loginAttempts = 0 /\ users[e].lockedUntil = NoDate

\* C9: a login that begins on an inactive account, or on an account whose
\* lock is in effect, returns at once and leaves the users table as it
\* was, whatever the password.
C9_RejectedLoginChangesNothing ==
  [][\A e \in Accounts :
       (/\ Found(e)
        /\ (~users[e].isActive \/ LockInEffect(e, now))
        /\ LoginBegins(e))
         => /\ LoginReturns(e)
            /\ resp'.why \in {"inactive", "locked"}
            /\ users' = users
    ]_vars

\* C9 witness: a correct password on a locked account; the counter, the
\* lock and lastLoginAt are still those the locking failure stored.
C9_Witness ==
  \E e \in Accounts :
    /\ resp.op = "login" /\ resp.email = e /\ resp.pwdOk /\ resp.why = "locked"
    /\ users[e].isActive
    /\ users[e].loginAttempts >= MaxAttempts
    /\ users[e].lastLoginAt # NoDate

\* C10: login reports a locked account as 'locked' with the minutes left,
\* an inactive one as 'not active', and the other two causes as invalid
\* credentials.
C10_DistinctFailureOutcomes ==
  resp.op = "login"
    => /\ resp.why = "locked"
            => /\ resp.out = "locked"
               /\ resp.n = GetMinutesUntilUnlock(Row(resp.email), now)
       /\ resp.why = "inactive" => resp.out = "not_active"
       /\ resp.why \in {"not_found", "bad_password"}
            => resp.out = "invalid_credentials"

\* C11: a throttled resend reports the wait minResendInterval - elapsed
\* rounded down, for whole and non-whole seconds alike, and the client
\* receives it as waitTimeSeconds.
C11_ThrottleWaitTime ==
  (resp.op = "resend" /\ resp.why = "throttled")
    => /\ resp.n = (MinResendIntervalSeconds * MsPerSecond
                      - (now - resp.pre[1].createdAt)) \div MsPerSecond
       /\ ResendVerificationCode(resp).waitTimeSeconds = <<resp.n>>

\* the records of e that are unused and strictly before their expiry at t
Fresh(e, t) == {v \in verifs : v.email = e /\ ~v.isUsed /\ t < v.expiresAt}

\* C12: a resend for an existing, inactive user that reaches the throttle
\* check goes on exactly as send whenever the email has no unused,
\* unexpired code, or the latest one is at least minResendInterval old.
C12_ResendProceedsAsSend ==
  [][\A r \in Reqs :
       (/\ ev[r].pc = "throttle" /\ ev'[r].pc # "throttle"
        /\ \A v \in Fresh(ev[r].email, now) :
             now - v.createdAt >= MinResendIntervalSeconds * MsPerSecond)
         => /\ ev'[r].pc = "user"
            /\ ev'[r].op = "resend" /\ ev'[r].email = ev[r].email
    ]_vars

\* C13: for an account that is already active, resend answers with the
\* same 'already verified' success as send, not with an error.
C13_ResendAlreadyVerifiedIsSuccess ==
  (resp.op \in {"send", "resend"} /\ resp.why = "already_verified")
    => resp.out = "success"

\* C14: a send that finds no user fails, and a send that finds the user
\* active answers success as already verified; either way the step leaves
\* the verification records, the users table and the notifier's outbox as
\* they were.
C14_SendWithoutEffect ==
  [][\A r \in Reqs :
       (/\ ev[r].pc = "user" /\ ev[r].op = "send" /\ ev'[r] # ev[r]
        /\ (~Found(ev[r].email) \/ users[ev[r].email].isActive))
         => /\ resp'.op = "send" /\ resp'.email = ev[r].email
            /\ ~Found(ev[r].email)
                 => resp'.out = "error" /\ resp'.why = "user_not_found"
            /\ Found(ev[r].email)
                 => resp'.out = "success" /\ resp'.why = "already_verified"
            /\ ev'[r].pc = "idle"
            /\ verifs' = verifs /\ nextId' = nextId
            /\ users' = users /\ outbox' = outbox
    ]_vars

\* C14 witness: a send for a user a verify has activated is answered as
\* already verified; the one code issued and dispatched so far is still
\* the only one.
C14_Witness ==
  /\ resp.op = "send" /\ resp.why = "already_verified" /\ resp.out = "success"
  /\ users[resp.email].isActive
  /\ nextId = 1 /\ Cardinality(verifs) = 1 /\ Cardinality(outbox) = 1

\* C15: when a verify fails, the record it loaded is stored exactly as it
\* was loaded: a failed verification marks no code used.
C15_FailedVerifyMarksNothing ==
  (resp.op = "verify" /\ resp.out = "error" /\ resp.pre # <<>>)
    => \A w \in verifs : w.id = resp.pre[1].id => w = resp.pre[1]

\* C16: verify fails as 'invalid code' when no record matches, as 'already
\* used' when the record it loaded is used, and as 'expired' when that
\* record is unused and past expiresAt; loading a matching record never
\* ends in an infrastructure failure.
C16_VerifyFailureCauses ==
  [][\A r \in Reqs :
       /\ (ev[r].pc = "load" /\ ev'[r] # ev[r])
            => /\ Matching(ev[r].email, ev[r].code) = {}
                    => resp'.why = "invalid_code"
               /\ Matching(ev[r].email, ev[r].code) # {}
                    => resp'.why # "storage_error"
       /\ (ev[r].pc = "check" /\ ev'[r] # ev[r])
            => /\ ev[r].snap[1].isUsed => resp'.why = "already_used"
               /\ (~ev[r].snap[1].isUsed /\ now > ev[r].snap[1].expiresAt)
                    => resp'.why = "expired"
    ]_vars

\* the ids of the records whose notifier call failed
Undelivered == {o.id : o \in {p \in outbox : ~p.delivered}}

\* C17: when the notifier fails, the record that send has just saved is
\* stored, unused and unexpired, and every other record of the email is
\* used; and a verify that later checks such a record while it is unused
\* and before its expiry marks it used and goes on to the activation.
C17_NotifierFailureKeepsCode ==
  [][/\ resp'.why = "notifier_failed"
          => /\ resp'.pre[1] \in verifs'
             /\ resp'.pre[1].id \in Undelivered'
             /\ ~resp'.pre[1].isUsed /\ now' < resp'.pre[1].expiresAt
             /\ \A w \in verifs' :
                  (w.email = resp'.pre[1].email /\ w.id # resp'.pre[1].id)
                    => w.isUsed
     /\ \A r \in Reqs :
          (/\ ev[r].pc = "check" /\ ev'[r] # ev[r]
           /\ ev[r].snap[1].id \in Undelivered
           /\ ~ev[r].snap[1].isUsed /\ now < ev[r].snap[1].expiresAt)
            => /\ ev'[r].pc = "vuser"
               /\ \E w \in verifs' : w.id = ev[r].snap[1].id /\ w.isUsed
    ]_vars

\* C17 witness: a verify has activated the user with a code whose email
\* the notifier failed to send.
C17_Witness ==
  /\ resp.op = "verify" /\ resp.why = "ok" /\ resp.out = "activated"
  /\ resp.pre[1].id \in Undelivered
  /\ users[resp.email].isActive

\* C18: a send or resend whose notifier call fails still completes and
\* reports the code as issued; the failure is not passed on to the caller.
C18_NotifierFailureNotPropagated ==
  [][\A o \in outbox' \ outbox :
       ~o.delivered => /\ resp'.op \in {"send", "resend"}
                       /\ resp'.out = "success"
    ]_vars

C19_Iat ==
  IF "iat" \in DOMAIN jwt[1].payload /\ jwt[1].payload.iat # 0
  THEN jwt[1].payload.iat
  ELSE jwt[1].at \div MsPerSecond

TokenCause(tok, pair, t) ==
  IF tok = "forged" \/ pair = <<>> THEN "invalid"
  ELSE IF t \div MsPerSecond >= pair[1][tok].claims.exp THEN "expired"
  ELSE ""

C21_ExpiresInMatchesToken ==
  (resp.op = "login" /\ resp.out = "ok")
    => /\ held # <<>>
       /\ resp.expiresIn
            = held[1].access.claims.exp - held[1].access.claims.iat

\* the token tok of the pair would be accepted by refresh and verify-token
\* at instant t
Accepted(tok, pair, t) ==
  /\ TokenCause(tok, pair, t) = ""
  /\ users[pair[1][tok].claims.sub].exists
  /\ users[pair[1][tok].claims.sub].isActive
  /\ ~LockInEffect(pair[1][tok].claims.sub, t)

\* C22: logout answers success for no token, a valid, an expired and a
\* forged token alike, writes no users or verification row, and leaves
\* the issued pair as it was: a token accepted before it is accepted after.
C22_LogoutRevokesNothing ==
  [][resp'.op = "logout"
       => /\ resp'.out = "ok"
          /\ users' = users /\ verifs' = verifs
          /\ held' = held
          /\ \A tok \in {"access", "refresh"} :
               (held # <<>> /\ Accepted(tok, held, now))
                 => (held' # <<>> /\ Accepted(tok, held', now'))
    ]_vars

\* C22 witness: a logout with an access token that is still valid; the
\* token and the refresh token of the pair are still accepted.
C22_Witness ==
  /\ resp.op = "logout" /\ resp.why = "access" /\ resp.email # "unknown"
  /\ held # <<>>
  /\ Accepted("access", held, now) /\ Accepted("refresh", held, now)

\* C23: an unlock of an existing account stores loginAttempts = 0 and no
\* lock, whatever was stored before, and leaves isActive as it is and
\* lastLoginAt as unlock read it.
C23_UnlockResets ==
  [][(resp'.op = "unlock" /\ resp'.why = "ok")
       => /\ users'[resp'.email].loginAttempts = 0
          /\ users'[resp'.email].lockedUntil = NoDate
          /\ users'[resp'.email].isActive = users[resp'.email].isActive
          /\ users'[resp'.email].exists = users[resp'.email].exists
          /\ users'[resp'.email].lastLoginAt = resp'.pre[1].lastLoginAt
          /\ held' = held
    ]_vars

\* C23 witness: an account locked by five failures and then deactivated is
\* unlocked while its lock is still in effect; it stays inactive.
C23_Witness ==
  /\ resp.op = "unlock" /\ resp.why = "ok"
  /\ resp.pre[1].loginAttempts >= MaxAttempts
  /\ resp.pre[1].lockedUntil # NoDate /\ resp.pre[1].lockedUntil[1] > now
  /\ users[resp.email].loginAttempts = 0
  /\ users[resp.email].lockedUntil = NoDate
  /\ ~users[resp.email].isActive

\* C24: concurrent logins for one account are not serialised. Each
\* wrong-password login stores the counter of the record it loaded plus one,
\* whatever the row holds by then: when two logins loaded the same record the
\* stored loginAttempts grows by one for the two of them, and a wrong
\* password is still compared after the row already carries the lock.
C24_FailedLoginCountsFromSnapshot ==
  [][\A r \in Reqs :
       (/\ req[r].pc = "compare"
        /\ ~req[r].pwdOk
        /\ req'[r].pc = "idle"
        /\ resp'.op = "login"
        /\ resp'.why = "bad_password")
       => /\ users'[req[r].email].loginAttempts
               = req[r].snap[1].loginAttempts + 1
          /\ (users[req[r].email].loginAttempts
                 = req[r].snap[1].loginAttempts + 1
              => users'[req[r].email].loginAttempts
                   = users[req[r].email].loginAttempts)]_vars

\* two wrong-password logins loaded the same record one short of the
\* threshold; the first has stored the lock, counting once, and the second
\* is still to be compared and stored
C24_Witness ==
  \E r \in Reqs :
    /\ req[r].pc = "compare"
    /\ ~req[r].pwdOk
    /\ resp.op = "login"
    /\ resp.why = "bad_password"
    /\ resp.email = req[r].email
    /\ resp.pre = req[r].snap
    /\ req[r].snap[1].loginAttempts = MaxAttempts - 1
    /\ users[req[r].email].loginAttempts = MaxAttempts
    /\ users[req[r].email].lockedUntil # NoDate

\* C27: in every stored user row, under any interleaving of logins and
\* unlocks, loginAttempts is non-negative and lockedUntil is non-null
\* exactly when loginAttempts has reached the lock threshold.
C27_LockFieldsConsistent ==
  \A e \in Accounts :
    /\ users[e].loginAttempts >= 0
    /\ (users[e].lockedUntil # NoDate <=> users[e].loginAttempts >= MaxAttempts)

\* a login that loaded the record before the lock was stored, or before an
\* unlock cleared it, has just written its own counter and lock over the row
C27_Witness ==
  /\ resp.op = "login"
  /\ resp.why = "bad_password"
  /\ resp.pre # <<>>
  /\ resp.pre[1].loginAttempts >= MaxAttempts - 1
  /\ users[resp.email].loginAttempts >= MaxAttempts
  /\ users[resp.email].lockedUntil # NoDate
  /\ unl # <<>>
  /\ unl[1].email = resp.email

\* C25: of the verify requests carrying one (email, code), interleaved in
\* any way, at most one succeeds and at most one reports the activation: a
\* verify never succeeds on a record a verify has already succeeded on, and
\* never reports having activated a user who was already active.
C25_OneVerifyWins ==
  [][(resp'.op = "verify" /\ resp'.why = "ok")
       => /\ resp'.pre[1].id \notin redeemed
          /\ (resp'.out = "activated" => ~users[resp'.email].isActive)]_vars

\* the stored record of v has been marked used by markPreviousAsUsed: it is
\* used, no verify has succeeded on it and none is past markAsUsed with it
Superseded(v) ==
  \E w \in verifs :
    /\ w.id = v.id
    /\ w.isUsed
    /\ w.id \notin redeemed
    /\ ~\E q \in Reqs : /\ ev[q].op = "verify"
                        /\ ev[q].pc \in {"vuser", "activate"}
                        /\ ev[q].snap[1].id = v.id

\* C26: a code superseded by a newer send or resend never activates the
\* user: once the supersession is stored, a verify that still has to decide
\* on the old code does not accept it, however the two requests interleave.
C26_SupersededCodeRejected ==
  [][\A r \in Reqs :
       (/\ ev[r].pc = "check"
        /\ ev[r].op = "verify"
        /\ Superseded(ev[r].snap[1])
        /\ ev'[r] # ev[r])
       => (resp'.op = "verify" /\ resp'.why # "ok" /\ ev'[r].pc = "idle")]_vars

\* C28: a send that fails before its new code is stored (the record is
\* rejected at construction, or the save fails) leaves the codes of that
\* email as they were: after such a failure every used code of the email
\* was used by a verify or replaced by a newer stored code, so a code that
\* was usable before the failed send is still usable.
C28_FailedSendKeepsCodes ==
  (resp.op \in {"send", "resend"} /\ resp.why \in {"storage_error", "save_failed"})
    => \A v \in verifs :
         (v.email = resp.email /\ v.isUsed)
           => \/ v.id \in redeemed
              \/ \E w \in verifs : w.email = v.email /\ w.id > v.id

\* C29: every stored code expires expirationMinutes after its creation, 15
\* by default, and a caller's value is taken only within [5, 60]: no stored
\* code has a lifetime below 5 or above 60 minutes.
C29_LifetimeWithinRange ==
  \A v \in verifs :
    /\ v.expiresAt - v.createdAt >= MinExpirationMinutes * MsPerMinute
    /\ v.expiresAt - v.createdAt <= MaxExpirationMinutes * MsPerMinute

\* C30: the remaining lock time read from a record is the ceiling of
\* (lockedUntil - now) / 60 s while the lock is in effect, never negative,
\* and 0 when lockedUntil is null or has elapsed, the elapsed lockedUntil
\* being still stored.
C30_MinutesUntilUnlock ==
  resp.op = "minutes"
    => LET l == users[resp.email].lockedUntil IN
       /\ resp.n >= 0
       /\ (l = NoDate => resp.n = 0)
       /\ (l # NoDate /\ l[1] <= now => resp.n = 0)
       /\ (l # NoDate /\ l[1] > now
             => /\ resp.n * MsPerMinute >= l[1] - now
                /\ (resp.n - 1) * MsPerMinute < l[1] - now)

\* the remaining time of a lock in effect is read when it is not a whole
\* number of minutes
C30_Witness ==
  /\ resp.op = "minutes"
  /\ users[resp.email].lockedUntil # NoDate
  /\ users[resp.email].lockedUntil[1] > now
  /\ (users[resp.email].lockedUntil[1] - now) % MsPerMinute # 0
  /\ resp.n > 0
====
